---- MODULE Spec2Model ----
(***************************************************************************)
(* A model of mdBook's src/utils/mod.rs: anchor-id generation, the link    *)
(* destination resolver (fix, fix_html, adjust_links), and the curly-quote *)
(* converter that render_markdown_with_path maps over the parser's events. *)
(*                                                                         *)
(* A string is a sequence of characters; a character is a one-character    *)
(* string ("a", ".", "#"), or a token such as "U+00DC" for a character     *)
(* outside ASCII.  Chars("a.md") = <<"a", ".", "m", "d">>.                 *)
(***************************************************************************)
EXTENDS Naturals, Sequences, FiniteSets, TLC

VARIABLES
    content,        \* id generation: the text given to the id function
    id_fn,          \* id generation: which function is applied
    ids,            \* id generation: the successive results
    enabled,        \* EventQuoteConverter.enabled
    convert_text,   \* EventQuoteConverter.convert_text
    depth,          \* open code blocks in the event stream fed so far
    inner_ended,    \* an inner code block has ended since the latest Start(CodeBlock)
    prev,           \* the event fed before the current one
    event,          \* the event last given to the pipeline
    out,            \* the event the pipeline returned for it
    call,           \* resolver: the function called
    dest,           \* resolver: its string argument (a destination, or html)
    path,           \* resolver: current page path (None when absent)
    src_dir,        \* resolver: source directory (None when absent)
    fallback_path,  \* resolver: fallback subpath (None when absent)
    fs,             \* resolver: the paths that exist on the filesystem
    result          \* resolver: what the call returned

vars == <<content, id_fn, ids, enabled, convert_text, depth, inner_ended, prev, event,
          out, call, dest, path, src_dir, fallback_path, fs, result>>

idVars == <<content, id_fn, ids>>

streamVars == <<depth, inner_ended, prev>>

contextVars == <<path, src_dir, fallback_path, fs>>

(***************************************************************************)
(* Strings and characters                                                  *)
(***************************************************************************)

Chars(s) == [i \in 1..Len(s) |-> SubSeq(s, i, i)]

\* The strings over alphabet of length exactly n, and of length at most n.
StringsOfLen(alphabet, n) == [1..n -> alphabet]

StringsUpTo(alphabet, n) == UNION {StringsOfLen(alphabet, k) : k \in 0..n}

\* Option::None for an optional string: a value no string is equal to.
None == <<"None">>

\* A panic (unwrap or expect on None): the call does not return a string.
Abort == <<"Abort">>

\* No call has returned yet.
Pending == <<"Pending">>

AsciiUpper == Chars("ABCDEFGHIJKLMNOPQRSTUVWXYZ")

AsciiLower == Chars("abcdefghijklmnopqrstuvwxyz")

AsciiDigits == Chars("0123456789")

\* Alphabetic characters outside ASCII that the bounded inputs use:
\* U+00DC is an upper-case letter, U+4E2D a CJK ideograph.
NonAsciiAlphanumeric == {"U+00DC", "U+4E2D"}

Range(s) == {s[i] : i \in 1..Len(s)}

Alphanumeric ==
    Range(AsciiUpper) \cup Range(AsciiLower) \cup Range(AsciiDigits)
    \cup NonAsciiAlphanumeric

\* char::is_alphanumeric
IsAlphanumeric(ch) == ch \in Alphanumeric

\* The Unicode White_Space characters the inputs use.
Whitespace == {" ", "\t", "\n", "\r", "\f", "U+00A0"}

\* char::is_whitespace
IsWhitespace(ch) == ch \in Whitespace

\* char::to_ascii_lowercase: only A-Z change.
ToAsciiLowercase(ch) ==
    IF \E i \in 1..Len(AsciiUpper) : AsciiUpper[i] = ch
    THEN AsciiLower[CHOOSE i \in 1..Len(AsciiUpper) : AsciiUpper[i] = ch]
    ELSE ch

StartsWith(s, prefix) ==
    /\ Len(prefix) <= Len(s)
    /\ SubSeq(s, 1, Len(prefix)) = prefix

EndsWith(s, suffix) ==
    /\ Len(suffix) <= Len(s)
    /\ SubSeq(s, Len(s) - Len(suffix) + 1, Len(s)) = suffix

\* s from position i (1-based) to its end.
From(s, i) == SubSeq(s, i, Len(s))

(***************************************************************************)
(* Anchor ids: normalize_id and id_from_content                            *)
(***************************************************************************)

RECURSIVE normalize_id_without_hyphen(_)
\* normalize_id with '-' left out of the characters it keeps.
normalize_id_without_hyphen(text) ==
    IF text = <<>> THEN <<>>
    ELSE (IF IsAlphanumeric(Head(text)) \/ Head(text) = "_"
          THEN <<ToAsciiLowercase(Head(text))>>
          ELSE IF IsWhitespace(Head(text)) THEN <<"-">> ELSE <<>>)
         \o normalize_id_without_hyphen(Tail(text))

RECURSIVE normalize_id(_)
normalize_id(text) ==
    IF text = <<>> THEN <<>>
    ELSE (IF IsAlphanumeric(Head(text)) \/ Head(text) = "_" \/ Head(text) = "-"
          THEN <<ToAsciiLowercase(Head(text))>>
          ELSE IF IsWhitespace(Head(text)) THEN <<"-">> ELSE <<>>)
         \o normalize_id(Tail(text))

REPL_SUB ==
    << Chars("<em>"), Chars("</em>"), Chars("<code>"), Chars("</code>"),
       Chars("<strong>"), Chars("</strong>"), Chars("&lt;"), Chars("&gt;"),
       Chars("&amp;"), Chars("&#39;"), Chars("&quot;") >>

RECURSIVE Remove(_, _)
\* str::replace(sub, ""): the non-overlapping occurrences, left to right.
Remove(s, sub) ==
    IF Len(s) < Len(sub) THEN s
    ELSE IF StartsWith(s, sub) THEN Remove(From(s, Len(sub) + 1), sub)
    ELSE <<Head(s)>> \o Remove(Tail(s), sub)

RECURSIVE RemoveEach(_, _, _)
\* The loop over REPL_SUB, from the i-th substring on.
RemoveEach(s, subs, i) ==
    IF i > Len(subs) THEN s ELSE RemoveEach(Remove(s, subs[i]), subs, i + 1)

RECURSIVE TrimStart(_)
TrimStart(s) ==
    IF s # <<>> /\ IsWhitespace(Head(s)) THEN TrimStart(Tail(s)) ELSE s

RECURSIVE TrimEnd(_)
TrimEnd(s) ==
    IF s # <<>> /\ IsWhitespace(s[Len(s)])
    THEN TrimEnd(SubSeq(s, 1, Len(s) - 1)) ELSE s

\* str::trim
Trim(s) == TrimEnd(TrimStart(s))

RECURSIVE TrimStartMatches(_, _)
\* str::trim_start_matches(ch)
TrimStartMatches(s, ch) ==
    IF s # <<>> /\ Head(s) = ch THEN TrimStartMatches(Tail(s), ch) ELSE s

id_from_content(text) ==
    normalize_id(Trim(TrimStartMatches(Trim(RemoveEach(text, REPL_SUB, 1)), "#")))

(***************************************************************************)
(* Markdown events (pulldown_cmark::Event), as far as this file reads them *)
(***************************************************************************)

\* An event is a record: its variant (type), its tag, and the tag's or the
\* variant's string (arg).  Event::Start(Tag::CodeBlock(kind)) has kind
\* CodeBlockKind::Indented or CodeBlockKind::Fenced(info).
Indented == [fenced |-> FALSE, info |-> <<>>]

Fenced(info) == [fenced |-> TRUE, info |-> info]

StartCodeBlock(kind) ==
    [type |-> "Start", tag |-> "CodeBlock", fenced |-> kind.fenced, arg |-> kind.info]

\* Event::End(Tag::CodeBlock(_)): no code of this file reads its kind.
EndCodeBlock == [type |-> "End", tag |-> "CodeBlock", fenced |-> FALSE, arg |-> <<>>]

\* Event::Start(Tag::Link(_, dest, _)) and Event::Start(Tag::Image(_, dest, _))
StartLink(d) == [type |-> "Start", tag |-> "Link", fenced |-> FALSE, arg |-> d]

StartImage(d) == [type |-> "Start", tag |-> "Image", fenced |-> FALSE, arg |-> d]

Text(text) == [type |-> "Text", tag |-> "", fenced |-> FALSE, arg |-> text]

\* Event::Code: inline code, which is not a code block.
Code(text) == [type |-> "Code", tag |-> "", fenced |-> FALSE, arg |-> text]

Html(html) == [type |-> "Html", tag |-> "", fenced |-> FALSE, arg |-> html]

StartParagraph == [type |-> "Start", tag |-> "Paragraph", fenced |-> FALSE, arg |-> <<>>]

EndParagraph == [type |-> "End", tag |-> "Paragraph", fenced |-> FALSE, arg |-> <<>>]

\* No event yet, and the event of a pipeline that panicked.
NoEvent == [type |-> "NoEvent", tag |-> "", fenced |-> FALSE, arg |-> <<>>]

AbortEvent == [type |-> "Abort", tag |-> "", fenced |-> FALSE, arg |-> <<>>]

(***************************************************************************)
(* Curly quotes: convert_quotes_to_curly and EventQuoteConverter           *)
(***************************************************************************)

LeftSingle == "U+2018"

RightSingle == "U+2019"

LeftDouble == "U+201C"

RightDouble == "U+201D"

\* The match in convert_quotes_to_curly's closure: converted_char.
ConvertedChar(original_char, preceded_by_whitespace) ==
    IF original_char = "'"
    THEN (IF preceded_by_whitespace THEN LeftSingle ELSE RightSingle)
    ELSE IF original_char = "\""
    THEN (IF preceded_by_whitespace THEN LeftDouble ELSE RightDouble)
    ELSE original_char

RECURSIVE ConvertChars(_, _)
\* The map closure of convert_quotes_to_curly over the characters that are
\* left, with the captured flag preceded_by_whitespace.
ConvertChars(text, preceded_by_whitespace) ==
    IF text = <<>> THEN <<>>
    ELSE <<ConvertedChar(Head(text), preceded_by_whitespace)>>
         \o ConvertChars(Tail(text), IsWhitespace(Head(text)))

\* convert_quotes_to_curly with the flag starting false.
convert_quotes_start_unspaced(original_text) == ConvertChars(original_text, FALSE)

convert_quotes_to_curly(original_text) == ConvertChars(original_text, TRUE)

\* EventQuoteConverter::new
NewConverter(curly_quotes) == [enabled |-> curly_quotes, convert_text |-> TRUE]

\* convert that never looks at self.enabled.
convert_ignoring_enabled(self, ev) ==
    IF ev.type = "Start" /\ ev.tag = "CodeBlock"
    THEN [self |-> [self EXCEPT !.convert_text = FALSE], event |-> ev]
    ELSE IF ev.type = "End" /\ ev.tag = "CodeBlock"
    THEN [self |-> [self EXCEPT !.convert_text = TRUE], event |-> ev]
    ELSE IF ev.type = "Text" /\ self.convert_text
    THEN [self |-> self, event |-> Text(convert_quotes_to_curly(ev.arg))]
    ELSE [self |-> self, event |-> ev]

\* convert whose End(CodeBlock) arm does not resume conversion.
convert_never_resuming(self, ev) ==
    IF ~self.enabled THEN [self |-> self, event |-> ev]
    ELSE IF ev.type = "Start" /\ ev.tag = "CodeBlock"
    THEN [self |-> [self EXCEPT !.convert_text = FALSE], event |-> ev]
    ELSE IF ev.type = "Text" /\ self.convert_text
    THEN [self |-> self, event |-> Text(convert_quotes_to_curly(ev.arg))]
    ELSE [self |-> self, event |-> ev]

\* EventQuoteConverter::convert(&mut self, event): the converter afterwards and
\* the event returned.
convert(self, ev) ==
    IF ~self.enabled THEN [self |-> self, event |-> ev]
    ELSE IF ev.type = "Start" /\ ev.tag = "CodeBlock"
    THEN [self |-> [self EXCEPT !.convert_text = FALSE], event |-> ev]
    ELSE IF ev.type = "End" /\ ev.tag = "CodeBlock"
    THEN [self |-> [self EXCEPT !.convert_text = TRUE], event |-> ev]
    ELSE IF ev.type = "Text" /\ self.convert_text
    THEN [self |-> self, event |-> Text(convert_quotes_to_curly(ev.arg))]
    ELSE [self |-> self, event |-> ev]

RECURSIVE WithoutWhitespace(_)
\* info.chars().filter(|ch| !ch.is_whitespace()).collect()
WithoutWhitespace(info) ==
    IF info = <<>> THEN <<>>
    ELSE (IF IsWhitespace(Head(info)) THEN <<>> ELSE <<Head(info)>>)
         \o WithoutWhitespace(Tail(info))

clean_codeblock_headers(ev) ==
    IF ev.type = "Start" /\ ev.tag = "CodeBlock" /\ ev.fenced
    THEN StartCodeBlock(Fenced(WithoutWhitespace(ev.arg)))
    ELSE ev

(***************************************************************************)
(* Link destinations: SCHEME_LINK, MD_LINK, md_to_html_link, fix           *)
(***************************************************************************)

\* [a-z] and [a-z0-9+.-]
SchemeFirst == Range(AsciiLower)

SchemeChars == Range(AsciiLower) \cup Range(AsciiDigits) \cup {"+", ".", "-"}

\* SCHEME_LINK.is_match for ^[a-z]+: , a scheme of letters only.
SCHEME_LINK_letters_only(s) ==
    \E n \in 2..Len(s) :
        /\ s[n] = ":"
        /\ \A k \in 1..(n - 1) : s[k] \in SchemeFirst

\* SCHEME_LINK.is_match(s) for the regex ^[a-z][a-z0-9+.-]*:
SCHEME_LINK(s) ==
    \E n \in 2..Len(s) :
        /\ s[n] = ":"
        /\ s[1] \in SchemeFirst
        /\ \A k \in 2..(n - 1) :
               s[k] \in SchemeChars

\* "." does not match a line terminator.
NoNewline(s, from, to) == \A k \in from..to : s[k] # "\n"

\* \.md matches at position p.
MdAt(s, p) == p + 2 <= Len(s) /\ s[p] = "." /\ s[p + 1] = "m" /\ s[p + 2] = "d"

Min(S) == CHOOSE x \in S : \A y \in S : x <= y

Max(S) == CHOOSE x \in S : \A y \in S : x >= y

\* Where a match of MD_LINK may start: .* runs up to a \.md on the same line.
MdLinkStarts(s) ==
    {st \in 1..Len(s) : \E p \in st..Len(s) : MdAt(s, p) /\ NoNewline(s, st, p - 1)}

\* The \.md the match from st ends its link group at: .* is greedy, the last.
MdLinkDot(s, st) == Max({q \in st..Len(s) : MdAt(s, q) /\ NoNewline(s, st, q - 1)})

\* (?P<anchor>#.*)? after the \.md at p: to the end of the line, or nothing.
MdLinkAnchor(s, p) ==
    IF p + 3 <= Len(s) /\ s[p + 3] = "#"
    THEN SubSeq(s, p + 3, Max({e \in (p + 3)..Len(s) : NoNewline(s, p + 4, e)}))
    ELSE <<>>

MdLinkGroups(s, st, p) ==
    [matched |-> TRUE, link |-> SubSeq(s, st, p - 1), anchor |-> MdLinkAnchor(s, p)]

MdLinkFrom(s, st) == MdLinkGroups(s, st, MdLinkDot(s, st))

\* MD_LINK.captures(s) for the regex (?P<link>.*)\.md(?P<anchor>#.*)? :
\* the leftmost start, the longest link, then the anchor if a "#" follows.
\* The regex is anchored at neither end: what precedes the match and what
\* follows it belong to no group.
MD_LINK(s) ==
    IF MdLinkStarts(s) = {}
    THEN [matched |-> FALSE, link |-> <<>>, anchor |-> <<>>]
    ELSE MdLinkFrom(s, Min(MdLinkStarts(s)))

Html5 == Chars(".html")

DotMd == Chars(".md")

\* The body of md_to_html_link for the captures caps.
PushCaptures(d, fixed_link, caps) ==
    IF caps.matched
    THEN fixed_link \o caps.link \o Html5 \o caps.anchor
    ELSE fixed_link \o d

\* md_to_html_link(dest, fixed_link): fixed_link after the call.
md_to_html_link(d, fixed_link) == PushCaptures(d, fixed_link, MD_LINK(d))

\* PathBuf::from(p).exists()
Exists(files, p) == p \in files

Slash == <<"/">>

LastSlash(p) == Max({i \in 1..Len(p) : p[i] = "/"})

\* Path::parent: None for the empty path and for a root, else the path
\* without its last component (paths here are written without "." or ".."
\* components, without repeated and without trailing separators).
Parent(p) ==
    IF p = <<>> \/ p = Slash THEN None
    ELSE IF \A i \in 1..Len(p) : p[i] # "/" THEN <<>>
    ELSE IF LastSlash(p) = 1 THEN Slash
    ELSE SubSeq(p, 1, LastSlash(p) - 1)

\* The fragment-only branch that keeps the page's .md suffix.
FragmentOnlyKeepingMd(d, page) == IF page # None THEN page \o d ELSE d

\* fix, the branch for dest.starts_with('#').
FragmentOnly(d, page) ==
    IF page # None
    THEN (IF EndsWith(page, DotMd)
          THEN SubSeq(page, 1, Len(page) - 3) \o Html5
          ELSE page) \o d
    ELSE d

\* The probe that redirects whenever the fallback has the file.
RedirectedIgnoringPrimary(d, src, fallback, files) ==
    /\ src # None
    /\ fallback # None
    /\ Exists(files, src \o Slash \o fallback \o Slash \o d)

\* fix, the value of redirected_path after the filesystem probes.
Redirected(d, src, fallback, files) ==
    /\ src # None
    /\ ~Exists(files, src \o Slash \o d)
    /\ fallback # None
    /\ Exists(files, src \o Slash \o fallback \o Slash \o d)

\* fix, what `if !redirected_path && !base.is_empty()` writes to fixed_link.
BasePrefix(base, redirected_path) ==
    IF ~redirected_path /\ base # <<>> THEN base \o Slash ELSE <<>>

\* fix, fixed_link after the probes: the fallback prefix of a redirected link.
FallbackPrefix(fallback, redirected_path) ==
    IF redirected_path THEN fallback \o Slash ELSE <<>>

\* The rest of the relative branch, writing the base prefix after a redirect too.
RelativeFromAddingBaseAlways(d, page, fallback, redirected_path) ==
    IF page = None
    THEN md_to_html_link(d, FallbackPrefix(fallback, redirected_path))
    ELSE IF Parent(page) = None THEN Abort
    ELSE md_to_html_link(d, FallbackPrefix(fallback, redirected_path)
                            \o BasePrefix(Parent(page), FALSE))

\* The rest of the relative branch, taking a path without a parent as a root page.
RelativeFromWithoutExpect(d, page, fallback, redirected_path) ==
    IF page = None \/ Parent(page) = None
    THEN md_to_html_link(d, FallbackPrefix(fallback, redirected_path))
    ELSE md_to_html_link(d, FallbackPrefix(fallback, redirected_path)
                            \o BasePrefix(Parent(page), redirected_path))

\* fix, the relative branch from `if let Some(path) = path` on;
\* path.parent().expect("path can't be empty") panics when the page path has
\* no parent.
RelativeFrom(d, page, fallback, redirected_path) ==
    IF page = None
    THEN md_to_html_link(d, FallbackPrefix(fallback, redirected_path))
    ELSE IF Parent(page) = None THEN Abort
    ELSE md_to_html_link(d, FallbackPrefix(fallback, redirected_path)
                            \o BasePrefix(Parent(page), redirected_path))

\* fix, the branch for a relative link.
Relative(d, page, src, fallback, files) ==
    RelativeFrom(d, page, fallback, Redirected(d, src, fallback, files))

fix(d, page, src, fallback, files) ==
    IF d # <<>> /\ Head(d) = "#" THEN FragmentOnly(d, page)
    ELSE IF ~SCHEME_LINK(d) THEN Relative(d, page, src, fallback, files)
    ELSE d

(***************************************************************************)
(* Links in raw html: HTML_LINK, fix_html, adjust_links                    *)
(***************************************************************************)

Quote == "\""

TagA == Chars("<a ")

TagImg == Chars("<img ")

AttrSrc == Chars("src=\"")

AttrHref == Chars("href=\"")

\* h has the string w at position at.
HasAt(h, at, w) ==
    /\ at + Len(w) - 1 <= Len(h)
    /\ \A k \in 1..Len(w) : h[at + k - 1] = w[k]

\* <(?:a|img) followed by a space, at position at: its length, 0 if absent.
TagOpenLen(h, at) ==
    IF HasAt(h, at, TagA) THEN 3 ELSE IF HasAt(h, at, TagImg) THEN 5 ELSE 0

\* (?:src|href)=" at position at: its length, 0 if absent.
AttrLen(h, at) ==
    IF HasAt(h, at, AttrSrc) THEN 5 ELSE IF HasAt(h, at, AttrHref) THEN 6 ELSE 0

\* ([^"]+?)" from position v on: one character that is no quote at least,
\* up to the first quote.
HasValue(h, v) ==
    /\ v <= Len(h)
    /\ h[v] # Quote
    /\ \E e \in (v + 1)..Len(h) : h[e] = Quote

\* Where [^>]*? may stop for a match whose tag is open up to position after.
AttrStarts(h, after) ==
    {q \in after..Len(h) :
        /\ \A k \in after..(q - 1) : h[k] # ">"
        /\ AttrLen(h, q) > 0
        /\ HasValue(h, q + AttrLen(h, q))}

\* HTML_LINK matches at position at, for the regex
\* (<(?:a|img) [^>]*?(?:src|href)=")([^"]+?)"
HTML_LINK_at(h, at) ==
    /\ TagOpenLen(h, at) > 0
    /\ AttrStarts(h, at + TagOpenLen(h, at)) # {}

\* Where group 2 of the match at position at starts; [^>]*? is lazy: after
\* the first attribute that yields a match.
ValueStart(h, at) ==
    Min({q + AttrLen(h, q) : q \in AttrStarts(h, at + TagOpenLen(h, at))})

\* The quote that closes the value starting at v.
ValueClose(h, v) == Min({e \in (v + 1)..Len(h) : h[e] = Quote})

\* format!("{}{}\"", &caps[1], fixed) after the text before the match, then
\* the replacements in the rest; a panic in fix ends it all.
Replaced(before, fixed, rest) ==
    IF fixed = Abort \/ rest = Abort THEN Abort
    ELSE before \o fixed \o <<Quote>> \o rest

RECURSIVE ReplaceAll(_, _, _, _, _, _)

\* The match whose group 2 is h[v..close-1], found scanning from position i.
ReplaceMatch(h, i, v, close, page, src, fallback, files) ==
    Replaced(SubSeq(h, i, v - 1),
             fix(SubSeq(h, v, close - 1), page, src, fallback, files),
             ReplaceAll(h, close + 1, page, src, fallback, files))

ReplaceAt(h, i, v, page, src, fallback, files) ==
    ReplaceMatch(h, i, v, ValueClose(h, v), page, src, fallback, files)

\* HTML_LINK.replace_all from position i on, with fix_html's closure as the
\* replacement: the leftmost match, then on from after it.
ReplaceAll(h, i, page, src, fallback, files) ==
    IF \A at \in i..Len(h) : ~HTML_LINK_at(h, at) THEN From(h, i)
    ELSE ReplaceAt(h, i, ValueStart(h, Min({at \in i..Len(h) : HTML_LINK_at(h, at)})),
                   page, src, fallback, files)

fix_html(h, page, src, fallback, files) == ReplaceAll(h, 1, page, src, fallback, files)

\* The event with its string replaced by fixed; a panic in fix ends the pipeline.
WithFixed(ev, fixed) == IF fixed = Abort THEN AbortEvent ELSE [ev EXCEPT !.arg = fixed]

adjust_links(ev, page, src, fallback, files) ==
    IF ev.type = "Start" /\ ev.tag \in {"Link", "Image"}
    THEN WithFixed(ev, fix(ev.arg, page, src, fallback, files))
    ELSE IF ev.type = "Html"
    THEN WithFixed(ev, fix_html(ev.arg, page, src, fallback, files))
    ELSE ev

(***************************************************************************)
(* Bounded inputs                                                          *)
(***************************************************************************)

MaxIdLen == 4

MaxTextLen == 2

MaxDepth == 2

MaxDestLen == 5

\* An upper-case ASCII letter, a non-ASCII upper-case letter, a lower-case
\* letter, punctuation, whitespace, the heading marker and the hyphen.
IdChars == {"A", "U+00DC", "t", "&", " ", "#", "-"}

\* Headings with inline markup and entities left in, as the renderer sees them.
MarkedUpContents ==
    { Chars("## <em>A</em> t"), Chars("<code>A_t</code>"), Chars("A &lt; t"),
      Chars("&l&amp;t;"), Chars(" # A\tt "), Chars("<strong>t&#39;s</strong>") }

Contents == StringsUpTo(IdChars, MaxIdLen) \cup MarkedUpContents

TextChars == {"'", "\"", " ", "a"}

TextRuns == StringsUpTo(TextChars, MaxTextLen)

CodeBlockKinds == {Indented, Fenced(<<>>), Fenced(Chars("m, d"))}

DestChars == {"m", "d", ".", "#", ":"}

\* Destinations longer than MaxDestLen: a scheme with a .md path, .md inside
\* the fragment only, .md with a fragment, a path with a directory.
LongDests ==
    { Chars("m:.md"), Chars("d#.md"), Chars("m.md#d"), Chars("d/m.md"),
      Chars("m.md#d.md") }

Dests == StringsUpTo(DestChars, MaxDestLen) \cup LongDests

\* No page, the empty path, a page at the root, pages in a directory.
PagePaths == {None, <<>>, Slash, Chars("m.md"), Chars("d/m.md"), Chars("d/m")}

SrcDirs == {None, Chars("s")}

FallbackPaths == {None, Chars("../f")}

\* The paths fix probes for the destinations ds.
Probed(ds, src, fallback) ==
    IF src = None THEN {}
    ELSE {src \o Slash \o d : d \in ds}
         \cup (IF fallback = None THEN {}
               ELSE {src \o Slash \o fallback \o Slash \o d : d \in ds})

HtmlFragments ==
    { Chars("<a href=\"m.md\">"),
      Chars("<img src=\"d/m.md#d\">"),
      Chars("<a class=\"d\" href=\"#m\">"),
      Chars("<a href=\"\" src=\"m.md\">"),
      Chars("<b href=\"m.md\">"),
      Chars("<a href=\"m:d\"><img src=\"m.md\">"),
      Chars("<a > href=\"m.md\""),
      Chars("<a href=\"m.md") }

\* The destinations the fragments and the link events below carry.
LinkedDests == {Chars("m.md"), Chars("d/m.md#d"), Chars("#m"), Chars("m:d")}

LinkEvents ==
    {StartLink(d) : d \in LinkedDests} \cup {StartImage(d) : d \in LinkedDests}
    \cup {Html(h) : h \in HtmlFragments}

ProseEvents ==
    {Text(t) : t \in TextRuns}
    \cup { Code(Chars("'a'")), StartParagraph, EndParagraph,
           StartLink(Chars("m.md")), Html(Chars("<a href=\"m.md\">")) }

(***************************************************************************)
(* render_markdown_with_path: one event through the three maps             *)
(***************************************************************************)

IdIdle == content = <<>> /\ id_fn = "" /\ ids = <<>>

StreamIdle == depth = 0 /\ inner_ended = FALSE /\ prev = NoEvent

\* The pipeline's step once convert has returned converted for adjusted.
Emit(adjusted, converted) ==
    /\ event' = adjusted
    /\ out' = converted.event
    /\ enabled' = converted.self.enabled
    /\ convert_text' = converted.self.convert_text

\* .map(|event| converter.convert(event)) on the event adjust_links returned;
\* a panic in adjust_links ends the pipeline.
Convert(ev, adjusted) ==
    IF adjusted = AbortEvent
    THEN /\ event' = ev
         /\ out' = AbortEvent
         /\ UNCHANGED <<enabled, convert_text>>
    ELSE Emit(adjusted,
              convert([enabled |-> enabled, convert_text |-> convert_text], adjusted))

\* .map(clean_codeblock_headers).map(adjust_links).map(converter.convert)
\* applied to the parser's next event; event is what convert was given.
Render(ev) ==
    /\ out # AbortEvent
    /\ Convert(ev, adjust_links(clean_codeblock_headers(ev),
                                path, src_dir, fallback_path, fs))
    /\ UNCHANGED <<idVars, contextVars, call, dest, result>>

\* The parser opens a code block.
StartCodeBlockEvent ==
    /\ depth < MaxDepth
    /\ \E kind \in CodeBlockKinds : Render(StartCodeBlock(kind))
    /\ depth' = depth + 1
    /\ inner_ended' = FALSE
    /\ prev' = event

\* The parser closes the innermost open code block.
EndCodeBlockEvent ==
    /\ depth > 0
    /\ Render(EndCodeBlock)
    /\ depth' = depth - 1
    /\ inner_ended' = (depth > 1)
    /\ prev' = event

\* The parser emits text, inline code, a paragraph boundary, a link or html.
ProseEvent ==
    /\ \E ev \in ProseEvents : Render(ev)
    /\ prev' = event
    /\ UNCHANGED <<depth, inner_ended>>

\* render_markdown(text, curly_quotes): no page path, no source directory,
\* no fallback; EventQuoteConverter::new(curly_quotes).
Init ==
    /\ IdIdle
    /\ StreamIdle
    /\ enabled \in BOOLEAN
    /\ convert_text = NewConverter(enabled).convert_text
    /\ event = NoEvent
    /\ out = NoEvent
    /\ call = "render_markdown"
    /\ dest = <<>>
    /\ path = None
    /\ src_dir = None
    /\ fallback_path = None
    /\ fs = {}
    /\ result = Pending

Next == StartCodeBlockEvent \/ EndCodeBlockEvent \/ ProseEvent

Spec == Init /\ [][Next]_vars

(***************************************************************************)
(* Calls of fix, fix_html and the pipeline under a link context            *)
(***************************************************************************)

InitFix ==
    /\ IdIdle
    /\ StreamIdle
    /\ convert_text = TRUE
    /\ event = NoEvent
    /\ out = NoEvent
    /\ result = Pending
    /\ path \in PagePaths
    /\ src_dir \in SrcDirs
    /\ fallback_path \in FallbackPaths
    /\ \/ /\ call = "fix"
          /\ enabled = FALSE
          /\ dest \in Dests
          /\ fs \in SUBSET Probed({dest}, src_dir, fallback_path)
       \/ /\ call = "fix_html"
          /\ enabled = FALSE
          /\ dest \in HtmlFragments
          /\ fs \in SUBSET Probed({Chars("m.md")}, src_dir, fallback_path)
       \/ /\ call = "render_markdown_with_path"
          /\ enabled \in BOOLEAN
          /\ dest = <<>>
          /\ fs \in SUBSET Probed({Chars("m.md")}, src_dir, fallback_path)

Fix ==
    /\ call = "fix"
    /\ result = Pending
    /\ result' = fix(dest, path, src_dir, fallback_path, fs)
    /\ UNCHANGED <<idVars, streamVars, contextVars, enabled, convert_text, event,
                   out, call, dest>>

FixHtml ==
    /\ call = "fix_html"
    /\ result = Pending
    /\ result' = fix_html(dest, path, src_dir, fallback_path, fs)
    /\ UNCHANGED <<idVars, streamVars, contextVars, enabled, convert_text, event,
                   out, call, dest>>

\* The pipeline's step for an event that carries a link.
RenderLinkEvent ==
    /\ call = "render_markdown_with_path"
    /\ event = NoEvent
    /\ \E ev \in LinkEvents : Render(ev)
    /\ UNCHANGED streamVars

NextFix == Fix \/ FixHtml \/ RenderLinkEvent

SpecFix == InitFix /\ [][NextFix]_vars

(***************************************************************************)
(* Calls of normalize_id and id_from_content, twice over                   *)
(***************************************************************************)

InitId ==
    /\ content \in Contents
    /\ id_fn \in {"normalize_id", "id_from_content"}
    /\ ids = <<>>
    /\ StreamIdle
    /\ enabled = FALSE
    /\ convert_text = TRUE
    /\ event = NoEvent
    /\ out = NoEvent
    /\ call = ""
    /\ dest = <<>>
    /\ path = None
    /\ src_dir = None
    /\ fallback_path = None
    /\ fs = {}
    /\ result = Pending

\* The text the next call is given: the content, then the id made from it.
IdInput == IF ids = <<>> THEN content ELSE ids[Len(ids)]

NormalizeId ==
    /\ id_fn = "normalize_id"
    /\ Len(ids) < 2
    /\ ids' = Append(ids, normalize_id(IdInput))
    /\ UNCHANGED <<content, id_fn, streamVars, contextVars, enabled, convert_text,
                   event, out, call, dest, result>>

IdFromContent ==
    /\ id_fn = "id_from_content"
    /\ Len(ids) < 2
    /\ ids' = Append(ids, id_from_content(IdInput))
    /\ UNCHANGED <<content, id_fn, streamVars, contextVars, enabled, convert_text,
                   event, out, call, dest, result>>

NextId == NormalizeId \/ IdFromContent

SpecId == InitId /\ [][NextId]_vars

(***************************************************************************)
(* What the specification says, in its own terms                           *)
(***************************************************************************)

LowerCaseLetters == Range(AsciiLower)

RECURSIVE SchemeRest(_)
\* The rest of a scheme prefix: characters of [a-z0-9+.-], then ":".
SchemeRest(r) ==
    /\ r # <<>>
    /\ \/ Head(r) = ":"
       \/ /\ Head(r) \in LowerCaseLetters \cup Range(AsciiDigits) \cup {"+", ".", "-"}
          /\ SchemeRest(Tail(r))

\* The destination matches ^[a-z][a-z0-9+.-]*:
SchemeQualified(d) == d # <<>> /\ Head(d) \in LowerCaseLetters /\ SchemeRest(Tail(d))

FragmentOnlyLink(d) == d # <<>> /\ Head(d) = "#"

RelativeLink(d) == ~FragmentOnlyLink(d) /\ ~SchemeQualified(d)

\* fix has returned, or panicked, for the destination dest.
FixCalled == call = "fix" /\ result # Pending

FixReturned == FixCalled /\ result # Abort

\* The target is missing under source_directory and present under the fallback.
OnlyInFallback ==
    /\ src_dir # None
    /\ fallback_path # None
    /\ (src_dir \o Slash \o dest) \notin fs
    /\ (src_dir \o Slash \o fallback_path \o Slash \o dest) \in fs

\* The parent directory component of a page path: what precedes its last "/".
ParentDirectory(p) ==
    IF \E i \in 1..Len(p) : p[i] = "/"
    THEN SubSeq(p, 1, (CHOOSE i \in 1..Len(p) :
                          p[i] = "/" /\ \A j \in (i + 1)..Len(p) : p[j] # "/") - 1)
    ELSE <<>>

\* The page path is empty or a root: it has no parent component.
NoParentComponent(p) == \A i \in 1..Len(p) : p[i] = "/"

\* The page path is absent, or has a parent directory component (maybe empty).
PageHasParent == path = None \/ ~NoParentComponent(path)

\* The prefix a relative link gets that was not redirected.
PagePrefix ==
    IF path # None /\ ParentDirectory(path) # <<>>
    THEN ParentDirectory(path) \o Slash
    ELSE <<>>

\* Where the path part of a destination ends: before its first "#".
PathLen(d) ==
    IF \E i \in 1..Len(d) : d[i] = "#"
    THEN (CHOOSE i \in 1..Len(d) : d[i] = "#" /\ \A j \in 1..(i - 1) : d[j] # "#") - 1
    ELSE Len(d)

\* The destination has .md followed by the end of the string or by "#".
HasAnchoredMd(d) ==
    \E i \in 1..Len(d) : MdAt(d, i) /\ (i + 2 = Len(d) \/ d[i + 3] = "#")

\* The destination with the .md that ends its path part made .html, its
\* fragment kept; unchanged when its path part does not end in .md.
MdRewritten(d) ==
    IF EndsWith(SubSeq(d, 1, PathLen(d)), DotMd)
    THEN SubSeq(d, 1, PathLen(d) - 3) \o Html5 \o From(d, PathLen(d) + 1)
    ELSE d

\* Every .md of the destination, if it has one, is the one that ends its
\* path part.
MdOnlyAtPathEnd(d) == \A i \in 1..Len(d) : MdAt(d, i) => i = PathLen(d) - 2

\* The quote that stands at position i of a converted text run.
CurlyAt(text, i) ==
    IF text[i] = "'"
    THEN (IF i = 1 \/ IsWhitespace(text[i - 1]) THEN LeftSingle ELSE RightSingle)
    ELSE IF text[i] = "\""
    THEN (IF i = 1 \/ IsWhitespace(text[i - 1]) THEN LeftDouble ELSE RightDouble)
    ELSE text[i]

Curly(text) == [i \in 1..Len(text) |-> CurlyAt(text, i)]

(***************************************************************************)
(* The claims                                                              *)
(***************************************************************************)

\* C1: for every scheme-qualified destination (^[a-z][a-z0-9+.-]*:), whatever
\* the page path, the source directory, the fallback and the filesystem, fix
\* returns the destination unchanged.
C1_SchemeLinkUnchanged ==
    (FixCalled /\ SchemeQualified(dest)) => result = dest

\* C1 witness: a scheme link with a .md path, under a page in a directory,
\* with its target present under the fallback only: returned as it is.
C1_Witness ==
    /\ FixCalled
    /\ dest = Chars("m:.md")
    /\ path = Chars("d/m.md")
    /\ OnlyInFallback
    /\ result = Chars("m:.md")

\* C2: in the relative branch, a destination with .md followed by the end
\* of the string or by "#" has such a .md made .html and everything else
\* kept, the fragment included, and every other relative destination is
\* emitted unchanged after the prefix, no character dropped or replaced.
C2_MdRewriteAnchored ==
    (FixReturned /\ RelativeLink(dest)) =>
        \E prefix \in {<<>>, PagePrefix,
                       IF fallback_path = None THEN <<>> ELSE fallback_path \o Slash} :
            IF HasAnchoredMd(dest)
            THEN \E i \in 1..Len(dest) :
                     /\ MdAt(dest, i)
                     /\ i + 2 = Len(dest) \/ dest[i + 3] = "#"
                     /\ result = prefix \o SubSeq(dest, 1, i - 1) \o Html5
                                        \o From(dest, i + 3)
            ELSE result = prefix \o dest

\* C3 (as claimed): with curly quotes enabled, a Text event inside a code
\* block, nested or not, is returned unchanged, and a Text event outside all
\* code blocks is quote-converted.
C3_CodeTextUnchangedAtAnyDepth ==
    (enabled /\ event.type = "Text") =>
        /\ depth > 0 => out = event
        /\ depth = 0 => out = Text(Curly(event.arg))

\* C3 (amended): with curly quotes enabled, a Text event outside all code
\* blocks is quote-converted, also right after a block has ended; a Text
\* event inside a code block is returned unchanged when no inner code block
\* has ended since the latest Start(CodeBlock), and is quote-converted when
\* one has.
C3_CodeTextUnchangedUnlessInnerEnded ==
    (enabled /\ event.type = "Text") =>
        /\ (depth > 0 /\ ~inner_ended) => out = event
        /\ (depth > 0 /\ inner_ended) => out = Text(Curly(event.arg))
        /\ depth = 0 => out = Text(Curly(event.arg))

\* C3 witness: conversion has resumed on the text that follows a code block.
C3_Witness ==
    /\ enabled
    /\ depth = 0
    /\ prev = EndCodeBlock
    /\ event = Text(Chars("'a"))
    /\ out = Text(<<LeftSingle, "a">>)

\* C4: a relative destination whose target is missing under source_directory
\* and present under source_directory/fallback_subpath comes back as
\* fallback_subpath + "/" + the md-rewritten destination, without the parent
\* directory of the page path, whether the page path is absent, at the root
\* or in a directory.
C4_FallbackPrefixOnly ==
    (FixCalled /\ RelativeLink(dest) /\ OnlyInFallback /\ PageHasParent) =>
        /\ result = fallback_path \o Slash \o md_to_html_link(dest, <<>>)
        /\ MdOnlyAtPathEnd(dest) => result = fallback_path \o Slash \o MdRewritten(dest)

\* C4 witness: a redirected link on a page in a directory.
C4_Witness ==
    /\ FixCalled
    /\ dest = Chars("m.md")
    /\ path = Chars("d/m.md")
    /\ OnlyInFallback
    /\ result = Chars("../f/m.html")

\* C5 (as claimed): fix, fix_html and render return a result for every
\* destination and every link context, an empty page path included.
C5_NeverAborts == result # Abort /\ out # AbortEvent

\* C5 (amended): fix, fix_html and render return a result for every
\* destination and every link context whose page path is absent or has a
\* parent component; with a page path that has none (an empty path, a root)
\* fix aborts ("path can't be empty") on exactly the relative destinations,
\* and fix_html and render abort only then.
C5_AbortsOnlyWithoutParent ==
    /\ FixCalled =>
           (result = Abort <=>
               (RelativeLink(dest) /\ path # None /\ NoParentComponent(path)))
    /\ result = Abort => (path # None /\ NoParentComponent(path))
    /\ out = AbortEvent => (path # None /\ NoParentComponent(path))

\* C5 witness: fix has returned for a relative destination under a page at
\* the root, whose parent directory is empty.
C5_Witness ==
    /\ FixReturned
    /\ RelativeLink(dest)
    /\ dest = Chars("d.md")
    /\ path = Chars("m.md")
    /\ result = Chars("d.html")

\* C6: a fragment-only destination comes back as the page path with its .md
\* suffix made .html followed by the fragment when the page path is present,
\* and unchanged when it is absent, whatever the source directory, the
\* fallback and the filesystem.
C6_FragmentOnly ==
    (FixCalled /\ FragmentOnlyLink(dest)) =>
        result = IF path = None THEN dest
                 ELSE IF Len(path) >= 3 /\ From(path, Len(path) - 2) = DotMd
                 THEN SubSeq(path, 1, Len(path) - 3) \o Html5 \o dest
                 ELSE path \o dest

\* C6 witness: a fragment that itself ends in .md, on a page in a directory,
\* with a source directory and a fallback that has a file of that name.
C6_Witness ==
    /\ FixCalled
    /\ dest = Chars("#.md")
    /\ path = Chars("d/m.md")
    /\ OnlyInFallback
    /\ result = Chars("d/m.html#.md")

\* C7: a relative destination that was not redirected comes back as the
\* page's parent directory + "/" + the md-rewritten destination when the
\* page path is present with a non-empty parent, and as the md-rewritten
\* destination alone when the page path is absent or at the root; so with
\* the target present under source_directory the fallback plays no part.
C7_ParentPrefixUnlessRedirected ==
    (FixCalled /\ RelativeLink(dest) /\ ~OnlyInFallback /\ PageHasParent) =>
        /\ result = PagePrefix \o md_to_html_link(dest, <<>>)
        /\ MdOnlyAtPathEnd(dest) => result = PagePrefix \o MdRewritten(dest)

\* C7 witness: the target exists under the source directory and under the
\* fallback, and the link gets the page's directory.
C7_Witness ==
    /\ FixCalled
    /\ dest = Chars("m.md")
    /\ path = Chars("d/m.md")
    /\ fs = {Chars("s/m.md"), Chars("s/../f/m.md")}
    /\ result = Chars("d/m.html")

\* C8: applying normalize_id, or id_from_content, to its own result changes
\* nothing, and the result of normalize_id holds no whitespace and no
\* upper-case ASCII letter.
C8_IdIdempotent ==
    /\ Len(ids) = 2 => ids[2] = ids[1]
    /\ (id_fn = "normalize_id" /\ Len(ids) >= 1) =>
           \A i \in 1..Len(ids[1]) :
               ids[1][i] \notin Whitespace \cup Range(AsciiUpper)

\* C8 witness: a heading with markup, an upper-case letter and a space, its
\* id made twice.
C8_Witness ==
    /\ id_fn = "id_from_content"
    /\ content = Chars("## <em>A</em> t")
    /\ ids = <<Chars("a-t"), Chars("a-t")>>

\* C9: in a converted text run each ' or " becomes the opening quote at the
\* first position or after whitespace and the closing quote otherwise, every
\* other character stays, the length stays, and the run starts afresh
\* whatever the previous Text event ended with.
C9_QuotesByPrecedingWhitespace ==
    (enabled /\ convert_text /\ event.type = "Text") =>
        /\ out.type = "Text"
        /\ Len(out.arg) = Len(event.arg)
        /\ \A i \in 1..Len(event.arg) : out.arg[i] = CurlyAt(event.arg, i)

\* C9 witness: a run that starts with a quote right after a run that ended
\* in a letter: the quote opens, and the one after it closes.
C9_Witness ==
    /\ enabled
    /\ convert_text
    /\ prev = Text(<<"a">>)
    /\ event = Text(<<"'", "\"">>)
    /\ out = Text(<<LeftSingle, RightDouble>>)

\* C10: with curly quotes disabled, convert returns every event as it was
\* given and leaves enabled and convert_text as they were.
C10_DisabledIsIdentity ==
    [][~enabled => (out' = event' /\ enabled' = enabled /\ convert_text' = convert_text)]_vars

\* C10 witness: disabled, a text with quotes right after a code block opened.
C10_Witness ==
    /\ ~enabled
    /\ depth = 1
    /\ prev.type = "Start" /\ prev.tag = "CodeBlock"
    /\ event = Text(Chars("'a"))
    /\ out = event
    /\ convert_text

====
